---- MODULE Spec2Model ----
(***************************************************************************)
(* Model of scarlet_test: the regression harness that deblends a set of    *)
(* blends, measures every matched source, and stores one record table per  *)
(* branch (core.py, deblend.py, measure.py).                               *)
(*                                                                         *)
(* Three specifications share the module:                                  *)
(*   Spec         the branch list, the record files and the calls of       *)
(*                core.py that read and write them;                        *)
(*   SpecMeasure  measure_blend and deblend applied to one blend;          *)
(*   SpecPath     create_path on a directory tree.                         *)
(***************************************************************************)
EXTENDS Integers, Sequences, FiniteSets, TLC

VARIABLES
    branches,   \* content of branches.json: the "branches" list
    files,      \* data/<set_id>/<branch>.npz, by <<set_id, filename>>
    blends,     \* number of blend files found for the set (get_blend_ids)
    call,       \* the last call of core.py and how it ended
    data,       \* one blend's npz data: centers and matched catalog
    fluxBase,   \* what scarlet.measure.flux returns (see Flux)
    out,        \* the last call of measure_blend / deblend and its result
    fs,         \* the directory chain create_path works on
    pathCall    \* the last call of create_path and how it ended

vars == <<branches, files, blends, call, data, fluxBase, out, fs, pathCall>>

Range(s) == {s[i] : i \in DOMAIN s}

NoDup(s) == \A i, j \in DOMAIN s : s[i] = s[j] => i = j

IsPrefix(s, t) == Len(s) <= Len(t) /\ \A i \in DOMAIN s : s[i] = t[i]

(***************************************************************************)
(* Bounds.                                                                 *)
(***************************************************************************)
MaxBranch == 1
MaxBlends == 2

\* Branch identifiers: 0 stands for Python's None (the default of `branch`),
\* 1..MaxBranch for the PR / branch names.
NoneBranch == 0
Branches == 0..MaxBranch

SetIds == {"set1"}

(***************************************************************************)
(* The deblender argument.  "default" is deblender=None; the others are    *)
(* callables passed by the caller.  A callable returns, for the data of a  *)
(* blend, a tuple (measurements, observation, sources); every item is      *)
(* either a dict (it has keys() and values()), a list or another object.   *)
(*   "rows"   returns a list of measurement dicts, one per matched source  *)
(*            (the shape deblend.deblend gives its first item), an         *)
(*            observation object and a list of sources;                    *)
(*   "dictA", "dictB" return three dicts (the docstring's "measurement     *)
(*            dictionary entry"), with different values.                   *)
(***************************************************************************)
Deblenders == {"default", "rows", "dictA", "dictB"}

DictItem(v) == [kind |-> "dict", vals |-> v, items |-> <<>>]

ListItem(l) == [kind |-> "list", vals |-> <<>>, items |-> l]

ObjectItem == [kind |-> "object", vals |-> <<>>, items |-> <<>>]

\* Number of matched sources of blend i, i.e. of rows a deblender measures.
RowsOfBlend(i) == 1 + (i % 2)

DeblenderTag(d) == IF d = "dictA" THEN 1 ELSE 2

\* deblender(data) for the i-th blend of the set.
CallDeblender(d, i) ==
    IF d = "rows"
    THEN << ListItem([k \in 1..RowsOfBlend(i) |-> DictItem(<<0, i, k>>)]),
            ObjectItem,
            ListItem(<<>>) >>
    ELSE << DictItem(<<DeblenderTag(d), i, 1>>),
            DictItem(<<DeblenderTag(d), i, 2>>),
            DictItem(<<DeblenderTag(d), i, 3>>) >>

\* The measurement rows the deblender produced for blend i (its first item).
MeasurementRows(d, i) ==
    LET m == CallDeblender(d, i)[1]
    IN  IF m.kind = "list" THEN [k \in DOMAIN m.items |-> m.items[k].vals]
        ELSE <<m.vals>>

(***************************************************************************)
(* core.py                                                                 *)
(***************************************************************************)
get_branches == branches

get_filename(pr) == <<pr, "npz">>

NoFile == [exists |-> FALSE, records |-> <<>>]

SavedFile(records) == [exists |-> TRUE, records |-> records]

\* save_branch: the branch list after the call.
save_branch_always(branch) == Append(get_branches, branch)
save_branch_front(branch) ==
    IF branch \notin Range(get_branches)
    THEN <<branch>> \o get_branches
    ELSE get_branches
save_branch(branch) ==
    IF branch \notin Range(get_branches)
    THEN Append(get_branches, branch)
    ELSE get_branches

\* check_data_existence: whether it raises the ValueError, and the values its
\* message is formatted with; it returns True when it does not raise.
check_data_existence_flipped(set_id, branch, overwrite) ==
    IF branch \in Range(get_branches) /\ overwrite
    THEN [raised |-> TRUE, msg |-> <<branch, set_id>>]
    ELSE [raised |-> FALSE, msg |-> <<>>]
check_data_existence(set_id, branch, overwrite) ==
    IF branch \in Range(get_branches) /\ ~overwrite
    THEN [raised |-> TRUE, msg |-> <<branch, set_id>>]
    ELSE [raised |-> FALSE, msg |-> <<>>]

\* The loop of deblend_and_measure over blends bidx..n (1-based), with
\* `results` as it stands before blend bidx.  The default deblender is
\* functools.partial(deblend.deblend, max_iter=..., e_rel=...) called with one
\* positional argument: data_path and filters are missing, a TypeError.
RECURSIVE DeblendLoop(_, _, _, _)
DeblendLoop(d, bidx, n, results) ==
    IF bidx > n
    THEN [raised |-> "", deblended |-> n, results |-> results]
    ELSE IF d = "default"
         THEN [raised |-> "TypeError", deblended |-> bidx - 1, results |-> results]
         ELSE DeblendLoop(d, bidx + 1, n, CallDeblender(d, bidx))

\* Lines 173-175: one record per element of `results`.
CombineRecords(results) ==
    IF \E j \in DOMAIN results : results[j].kind # "dict"
    THEN [raised |-> "AttributeError", records |-> <<>>]
    ELSE IF Len(results) = 0
         THEN [raised |-> "IndexError", records |-> <<>>]
         ELSE [raised |-> "", records |-> [j \in DOMAIN results |-> results[j].vals]]

\* Line 177: `if save is not None`.
SaveRequested(save) == TRUE

IdleCall ==
    [op |-> "none", set_id |-> "set1", branch |-> NoneBranch, overwrite |-> FALSE,
     save |-> FALSE, deblender |-> "default", outcome |-> "", msg |-> <<>>,
     deblended |-> 0, records |-> <<>>, existed |-> FALSE]

\* deblend_and_measure(set_id, branch, overwrite, save=save, deblender=d)
deblend_and_measure(set_id, branch, overwrite, save, d) ==
    LET args == [IdleCall EXCEPT !.op = "deblend_and_measure", !.set_id = set_id,
                     !.branch = branch, !.overwrite = overwrite, !.save = save,
                     !.deblender = d,
                     !.existed = branch \in Range(branches)]
        chk  == IF save THEN check_data_existence(set_id, branch, overwrite)
                ELSE [raised |-> FALSE, msg |-> <<>>]
        loop == DeblendLoop(d, 1, blends, <<>>)
        comb == CombineRecords(loop.results)
    IN  IF chk.raised
        THEN /\ call' = [args EXCEPT !.outcome = "ValueError", !.msg = chk.msg]
             /\ UNCHANGED <<branches, files>>
        ELSE IF loop.raised # ""
        THEN /\ call' = [args EXCEPT !.outcome = loop.raised,
                                     !.deblended = loop.deblended]
             /\ UNCHANGED <<branches, files>>
        ELSE IF comb.raised # ""
        THEN /\ call' = [args EXCEPT !.outcome = comb.raised,
                                     !.deblended = loop.deblended]
             /\ UNCHANGED <<branches, files>>
        ELSE /\ call' = [args EXCEPT !.outcome = "ok", !.deblended = loop.deblended,
                                     !.records = comb.records]
             /\ IF SaveRequested(save)
                THEN /\ files' = [files EXCEPT ![<<set_id, get_filename(branch)>>] =
                                                    SavedFile(comb.records)]
                     /\ branches' = save_branch(branch)
                ELSE UNCHANGED <<branches, files>>

DeblendAndMeasure ==
    \E set_id \in SetIds, branch \in Branches, overwrite \in BOOLEAN,
       save \in BOOLEAN, d \in Deblenders :
        /\ deblend_and_measure(set_id, branch, overwrite, save, d)
        /\ UNCHANGED <<blends, data, fluxBase, out, fs, pathCall>>

SaveBranch ==
    \E branch \in Branches :
        /\ branches' = save_branch(branch)
        /\ call' = [IdleCall EXCEPT !.op = "save_branch", !.branch = branch,
                                    !.outcome = "ok",
                                    !.existed = branch \in Range(branches)]
        /\ UNCHANGED <<files, blends, data, fluxBase, out, fs, pathCall>>

CheckDataExistence ==
    \E set_id \in SetIds, branch \in Branches, overwrite \in BOOLEAN :
        LET chk == check_data_existence(set_id, branch, overwrite)
        IN  /\ call' = [IdleCall EXCEPT !.op = "check_data_existence",
                            !.set_id = set_id, !.branch = branch,
                            !.overwrite = overwrite,
                            !.existed = branch \in Range(branches),
                            !.outcome = IF chk.raised THEN "ValueError" ELSE "True",
                            !.msg = chk.msg]
            /\ UNCHANGED <<branches, files, blends, data, fluxBase, out, fs, pathCall>>

Filenames == {<<s, get_filename(b)>> : s \in SetIds, b \in Branches}

IdleData == [centers |-> <<>>, matched |-> <<>>]

IdleOut == [op |-> "none", outcome |-> "", rows |-> <<>>, sources |-> <<>>,
            skipped |-> <<>>, nsources |-> 0]

IdleFs == <<>>

IdlePathCall == [op |-> "none", path |-> 0, outcome |-> "", errno |-> ""]

Init ==
    /\ branches = <<>>
    /\ files = [f \in Filenames |-> NoFile]
    /\ blends \in 0..MaxBlends
    /\ call = IdleCall
    /\ data = IdleData
    /\ fluxBase = 0
    /\ out = IdleOut
    /\ fs = IdleFs
    /\ pathCall = IdlePathCall

Next == DeblendAndMeasure \/ SaveBranch \/ CheckDataExistence

Spec == Init /\ [][Next]_vars

(***************************************************************************)
(* measure.py and deblend.py: one blend.                                   *)
(*                                                                         *)
(* Coordinates are kept in half pixels, so that a catalog position such as *)
(* y = 0.5 and its integer truncation differ: <<1, 0>> is (y, x) =         *)
(* (0.5, 0.0).  Magnitudes are kept in tenths of a magnitude.              *)
(***************************************************************************)
MaxCenters == 3
MaxMatched == 2

Filters == <<"g", "r">>

Positions == {<<0, 0>>, <<1, 0>>, <<2, 2>>}

\* The catalog column "<filter>magVar" and the measurement key "<filter> diff".
MagVarColumn(f) == <<f, "magVar">>

DiffKey(f) == <<f, " diff">>

SceneKey(name) == <<"", name>>

SceneKeys == {SceneKey("init time"), SceneKey("runtime"), SceneKey("iterations"),
              SceneKey("logL"), SceneKey("init logL")}

MagVars ==
    { [c \in {MagVarColumn(Filters[f]) : f \in DOMAIN Filters} |->
            IF c = MagVarColumn("g") THEN t[1] ELSE t[2]] :
        t \in {<<250, 240>>, <<235, 260>>} }

CatalogEntries == [y : {p[1] : p \in Positions}, x : {p[2] : p \in Positions},
                   magVar : MagVars]

SeqsUpTo(S, n) == UNION {[1..m -> S] : m \in 1..n}

BlendData == [centers : SeqsUpTo(Positions, MaxCenters),
              matched : SeqsUpTo({e \in CatalogEntries : <<e.y, e.x>> \in Positions},
                                 MaxMatched)]

\* ndarray.astype(int) of a non-negative coordinate given in half pixels.
AsInt(c2) == c2 \div 2

\* centers[:, 0] == cy for a center coordinate in half pixels and an integer cy.
CoordEq(c2, n) == c2 = 2 * n

RECURSIVE Log10(_)
Log10(x) == IF x < 10 THEN 0 ELSE 1 + Log10(x \div 10)

RECURSIVE Pow10(_)
Pow10(e) == IF e = 0 THEN 1 ELSE 10 * Pow10(e - 1)

\* The model scarlet fits for the source initialised at centers[i] (1-based i),
\* reduced to what scarlet.measure.flux returns for it: one flux per band, a
\* different power of ten for every source and band.
SourceModel(i) ==
    [idx |-> i, flux |-> [f \in DOMAIN Filters |-> Pow10(fluxBase + 2 * (i - 1) + (f - 1))]]

NoneSource == [idx |-> 0, flux |-> <<>>]

\* 27 - 2.5*np.log10(flux), per band, in tenths of a magnitude.
Mag(flux) == [f \in DOMAIN flux |-> 270 - 25 * Log10(flux[f])]

\* np.array([[m["y"], m["x"]] for m in matched]).astype(int)
matched_centers(matched) ==
    [k \in DOMAIN matched |-> <<AsInt(matched[k].y), AsInt(matched[k].x)>>]

\* np.array([matched[f + "magVar"] for f in filters]): band by catalog entry.
true_flux(matched, filters) ==
    [f \in DOMAIN filters |->
        [k \in DOMAIN matched |-> matched[k].magVar[MagVarColumn(filters[f])]]]

\* np.where((centers[:, 0] == cy) & (centers[:, 1] == cx))[0], 1-based.
WhereCenter(centers, cy, cx) ==
    {i \in DOMAIN centers : CoordEq(centers[i][1], cy) /\ CoordEq(centers[i][2], cx)}

Min(S) == CHOOSE m \in S : \A n \in S : m <= n

Max(S) == CHOOSE m \in S : \A n \in S : m >= n

\* The dict comprehension of line 53 for entry k and the flux (in magnitudes).
DiffRowShifted(tf, k, flux, filters) ==
    [key \in {DiffKey(filters[f]) : f \in DOMAIN filters} |->
        LET f == Max({g \in DOMAIN filters : DiffKey(filters[g]) = key})
            h == (f % Len(filters)) + 1
        IN  tf[h][k] - flux[f]]
DiffRow(tf, k, flux, filters) ==
    [key \in {DiffKey(filters[f]) : f \in DOMAIN filters} |->
        LET f == Max({g \in DOMAIN filters : DiffKey(filters[g]) = key})
        IN  tf[f][k] - flux[f]]

\* The loop of measure_blend from catalog entry k on.
RECURSIVE MeasureLoop(_, _, _, _, _)
MeasureLoop(d, sources, filters, k, measurements) ==
    IF k > Len(d.matched)
    THEN [raised |-> "", rows |-> measurements]
    ELSE LET c    == matched_centers(d.matched)[k]
             idxs == WhereCenter(d.centers, c[1], c[2])
         IN  IF idxs = {}
             THEN [raised |-> "IndexError", rows |-> <<>>]
             ELSE IF Min(idxs) > Len(sources)
             THEN [raised |-> "IndexError", rows |-> <<>>]
             ELSE IF sources[Min(idxs)] = NoneSource
             THEN [raised |-> "AttributeError", rows |-> <<>>]
             ELSE MeasureLoop(d, sources, filters, k + 1,
                     Append(measurements,
                            DiffRow(true_flux(d.matched, filters), k,
                                    Mag(sources[Min(idxs)].flux), filters)))

measure_blend(d, sources, filters) == MeasureLoop(d, sources, filters, 1, <<>>)

\* list.insert(k, x) with a 0-based k >= 0.
InsertAtShifted(s, k, x) ==
    LET kk == IF k + 1 > Len(s) THEN Len(s) ELSE k + 1
    IN  SubSeq(s, 1, kk) \o <<x>> \o SubSeq(s, kk + 1, Len(s))
InsertAt(s, k, x) ==
    LET kk == IF k > Len(s) THEN Len(s) ELSE k
    IN  SubSeq(s, 1, kk) \o <<x>> \o SubSeq(s, kk + 1, Len(s))

\* for k in skipped: sources.insert(k, None)
RECURSIVE InsertSkipped(_, _)
InsertSkipped(sources, skipped) ==
    IF skipped = <<>> THEN sources
    ELSE InsertSkipped(InsertAt(sources, Head(skipped), NoneSource), Tail(skipped))

\* The ascending sequence of the elements of a set of integers.
RECURSIVE Ascending(_)
Ascending(S) == IF S = {} THEN <<>> ELSE <<Min(S)>> \o Ascending(S \ {Min(S)})

\* initAllSources(frame, centers, observation, ...): the sources it could
\* initialise, in the order of their centers, and the 0-based indices of the
\* centers it skipped, in ascending order.  `skip` is the set it skips.
InitAllSources(centers, skip) ==
    [sources |-> LET kept == Ascending((0..(Len(centers) - 1)) \ skip)
                 IN  [j \in DOMAIN kept |-> SourceModel(kept[j] + 1)],
     skipped |-> Ascending(skip)]

\* What blend.fit and the clock give: times in ms, the loss history, log_norm.
Fits == { [t_init |-> 3, t_fit |-> 12, loss |-> <<-90, -40>>, log_norm |-> 7],
          [t_init |-> 5, t_fit |-> 30, loss |-> <<-60>>, log_norm |-> 2] }

\* The scene-level measurements of lines 54-60; 'runtime', a quotient, is kept
\* as <<numerator, denominator>>.
SceneMeasurements(fit, nsources) ==
    [key \in SceneKeys |->
        CASE key = SceneKey("init time")  -> fit.t_init * 1000
          [] key = SceneKey("runtime")    -> <<fit.t_fit * 1000, nsources>>
          [] key = SceneKey("iterations") -> Len(fit.loss)
          [] key = SceneKey("logL")       -> fit.loss[Len(fit.loss)] - fit.log_norm
          [] key = SceneKey("init logL")  -> fit.loss[1] - fit.log_norm]

\* dict.update: the keys of both, the values of `other` where it has the key.
UpdateLost(m, other) == [key \in DOMAIN other |-> other[key]]
Update(m, other) ==
    [key \in DOMAIN m \cup DOMAIN other |->
        IF key \in DOMAIN other THEN other[key] ELSE m[key]]

\* deblend(): what it returns as (source_measurements, sources), or the error
\* it raises.  With no source left len(sources) is 0 at line 56.
deblend(d, skip, fit, filters) ==
    LET init    == InitAllSources(d.centers, skip)
        n       == Len(init.sources)
        sources == InsertSkipped(init.sources, init.skipped)
        m       == measure_blend(d, sources, filters)
        base    == [IdleOut EXCEPT !.op = "deblend", !.skipped = init.skipped,
                                   !.nsources = n]
    IN  IF n = 0
        THEN [base EXCEPT !.outcome = "ZeroDivisionError"]
        ELSE IF m.raised # ""
        THEN [base EXCEPT !.outcome = m.raised, !.sources = sources]
        ELSE [base EXCEPT !.outcome = "ok", !.sources = sources,
                          !.rows = [k \in DOMAIN m.rows |->
                                      Update(m.rows[k], SceneMeasurements(fit, n))]]

\* measure_blend called with one fitted source per center.
MeasureBlend ==
    /\ out = IdleOut
    /\ LET sources == [i \in DOMAIN data.centers |-> SourceModel(i)]
           m       == measure_blend(data, sources, Filters)
       IN  out' = [IdleOut EXCEPT !.op = "measure_blend",
                       !.outcome = IF m.raised = "" THEN "ok" ELSE m.raised,
                       !.rows = m.rows, !.sources = sources,
                       !.nsources = Len(sources)]
    /\ UNCHANGED <<data, fluxBase, branches, files, blends, call, fs, pathCall>>

Deblend ==
    /\ out = IdleOut
    /\ \E skip \in SUBSET (0..(Len(data.centers) - 1)), fit \in Fits :
            out' = deblend(data, skip, fit, Filters)
    /\ UNCHANGED <<data, fluxBase, branches, files, blends, call, fs, pathCall>>

InitMeasure ==
    /\ data \in BlendData
    /\ fluxBase \in {0, 1}
    /\ out = IdleOut
    /\ branches = <<>>
    /\ files = [f \in Filenames |-> NoFile]
    /\ blends = 0
    /\ call = IdleCall
    /\ fs = IdleFs
    /\ pathCall = IdlePathCall

NextMeasure == MeasureBlend \/ Deblend

SpecMeasure == InitMeasure /\ [][NextMeasure]_vars

(***************************************************************************)
(* create_path.  The file system is a chain of nested names below a base   *)
(* directory: fs[0] is the base, fs[p] the entry p levels below it, and    *)
(* path p names that entry.  An entry is absent ("none"), a directory, a   *)
(* directory without write permission ("rodir") or a regular file.         *)
(***************************************************************************)
MaxDepth == 3

Kinds == {"none", "dir", "rodir", "file"}

FileSystems ==
    {f \in [0..MaxDepth -> Kinds] :
        /\ f[0] \in {"dir", "rodir"}
        /\ \A p \in 1..MaxDepth : f[p] # "none" => f[p - 1] \in {"dir", "rodir"}}

\* os.mkdir(path): the errno it fails with ("" when it succeeds).
mkdir(f, p) ==
    IF f[p - 1] = "none" THEN [fs |-> f, errno |-> "ENOENT"]
    ELSE IF f[p - 1] = "file" THEN [fs |-> f, errno |-> "ENOTDIR"]
    ELSE IF f[p] # "none" THEN [fs |-> f, errno |-> "EEXIST"]
    ELSE IF f[p - 1] = "rodir" THEN [fs |-> f, errno |-> "EACCES"]
    ELSE [fs |-> [f EXCEPT ![p] = "dir"], errno |-> ""]

\* os.makedirs(path): the missing parents are made first; a parent found to
\* exist meanwhile is tolerated, any other failure is raised.
RECURSIVE makedirs(_, _)
makedirs(f, p) ==
    IF p > 1 /\ f[p - 1] = "none"
    THEN LET head == makedirs(f, p - 1)
         IN  IF head.errno \notin {"", "EEXIST"} THEN head
             ELSE mkdir(head.fs, p)
    ELSE mkdir(f, p)

\* Line 83: the OSError is raised again unless it says the path exists.
ReraisesAll(errno) == TRUE
Reraises(errno) == errno # "EEXIST"

create_path(p) ==
    LET made == makedirs(fs, p)
    IN  /\ fs' = made.fs
        /\ pathCall' = [op |-> "create_path", path |-> p, errno |-> made.errno,
                        outcome |-> IF made.errno # "" /\ Reraises(made.errno)
                                    THEN "OSError" ELSE "ok"]

CreatePath ==
    \E p \in 1..MaxDepth :
        /\ create_path(p)
        /\ UNCHANGED <<branches, files, blends, call, data, fluxBase, out>>

InitPath ==
    /\ fs \in FileSystems
    /\ pathCall = IdlePathCall
    /\ branches = <<>>
    /\ files = [f \in Filenames |-> NoFile]
    /\ blends = 0
    /\ call = IdleCall
    /\ data = IdleData
    /\ fluxBase = 0
    /\ out = IdleOut

NextPath == CreatePath

SpecPath == InitPath /\ [][NextPath]_vars

(***************************************************************************)
(* Properties of core.py, checked under Spec.                              *)
(***************************************************************************)
IsDAM(c) == c.op = "deblend_and_measure"

FileOf(c) == <<c.set_id, get_filename(c.branch)>>

RECURSIVE SumRows(_, _)
SumRows(d, n) == IF n = 0 THEN 0 ELSE SumRows(d, n - 1) + Len(MeasurementRows(d, n))

\* C1 as stated: every deblend_and_measure call with overwrite=False on a branch
\* already in the branch list fails with the ValueError naming branch and set,
\* before any blend is deblended, and leaves the records file and the branch
\* list as they were; check_data_existence raises exactly when the branch is
\* listed and overwrite is not set, and returns True otherwise.
C1_Original ==
    [][ /\ (IsDAM(call') /\ ~call'.overwrite /\ call'.branch \in Range(branches))
            => /\ call'.outcome = "ValueError"
               /\ call'.msg = <<call'.branch, call'.set_id>>
               /\ call'.deblended = 0
               /\ files' = files
               /\ branches' = branches
        /\ call'.op = "check_data_existence"
            => /\ call'.outcome = "ValueError"
                    <=> (call'.branch \in Range(branches) /\ ~call'.overwrite)
               /\ call'.outcome \in {"ValueError", "True"}
      ]_vars

\* C1 amended: the same, for the calls with save=True (the existence check is
\* made only when save is set).
C1_DuplicateFails ==
    [][ /\ (IsDAM(call') /\ call'.save /\ ~call'.overwrite
                /\ call'.branch \in Range(branches))
            => /\ call'.outcome = "ValueError"
               /\ call'.msg = <<call'.branch, call'.set_id>>
               /\ call'.deblended = 0
               /\ files' = files
               /\ branches' = branches
        /\ call'.op = "check_data_existence"
            => /\ call'.outcome = "ValueError"
                    <=> (call'.branch \in Range(branches) /\ ~call'.overwrite)
               /\ call'.outcome \in {"ValueError", "True"}
               /\ (call'.outcome = "ValueError"
                    => call'.msg = <<call'.branch, call'.set_id>>)
      ]_vars

C1_Witness ==
    /\ IsDAM(call) /\ call.save /\ ~call.overwrite /\ call.existed
    /\ call.outcome = "ValueError"
    /\ files[FileOf(call)].exists
    /\ blends > 0

\* C2: with overwrite=True and save=True a branch already listed is not refused;
\* when the call returns, the branch's records file holds exactly the records of
\* this call, no other file is touched, and the branch list is unchanged, the
\* branch occurring once at its original position.
C2_OverwriteReplaces ==
    [][ (IsDAM(call') /\ call'.save /\ call'.overwrite
            /\ call'.branch \in Range(branches))
        => /\ call'.outcome # "ValueError"
           /\ call'.outcome = "ok"
                => /\ files'[FileOf(call')] = SavedFile(call'.records)
                   /\ \A f \in DOMAIN files : f # FileOf(call') => files'[f] = files[f]
                   /\ Len(branches') = Len(branches)
                   /\ \A i \in DOMAIN branches :
                        branches[i] = call'.branch => branches'[i] = call'.branch
                   /\ Cardinality({i \in DOMAIN branches' :
                                     branches'[i] = call'.branch}) = 1
      ]_vars

C2_Witness ==
    /\ IsDAM(call) /\ call.save /\ call.overwrite /\ call.existed
    /\ call.outcome = "ok"
    /\ files[FileOf(call)].records = call.records
    /\ Len(branches) >= 2
    /\ branches[1] = call.branch

\* C3 as stated: the table deblend_and_measure returns for a set of N >= 1
\* blends has as many rows as the deblender measured over all blends, and holds
\* every blend's measurement rows.
C3_Original ==
    (IsDAM(call) /\ call.outcome = "ok" /\ blends >= 1)
        => /\ Len(call.records) = SumRows(call.deblender, blends)
           /\ \A i \in 1..blends :
                Range(MeasurementRows(call.deblender, i)) \subseteq Range(call.records)

\* C6 as stated: a call with save=False writes no records file and leaves the
\* branch list unchanged.
C6_Original ==
    [][ (IsDAM(call') /\ ~call'.save) => (files' = files /\ branches' = branches) ]_vars

\* C7: the branch list never holds an identifier twice; a step only ever extends
\* it at the end (no branch removed, the order of those present kept), and a
\* branch saved for the first time becomes its last element.
C7_BranchList ==
    [][ /\ NoDup(branches')
        /\ IsPrefix(branches, branches')
        /\ ( /\ call'.op = "save_branch" \/ (IsDAM(call') /\ call'.outcome = "ok")
             /\ call'.branch \notin Range(branches) )
            => branches' = Append(branches, call'.branch)
      ]_vars

C7_Witness ==
    /\ IsDAM(call) /\ call.outcome = "ok" /\ ~call.existed
    /\ Len(branches) = MaxBranch + 1
    /\ branches[Len(branches)] = call.branch
    /\ NoDup(branches)

(***************************************************************************)
(* Properties of measure_blend and deblend, checked under SpecMeasure.     *)
(***************************************************************************)
Measured == out.op \in {"measure_blend", "deblend"} /\ out.outcome # "ZeroDivisionError"

\* The centers equal to the integer-truncated position of catalog entry k.
CentersOf(k) ==
    {i \in DOMAIN data.centers :
        /\ data.centers[i][1] = 2 * (data.matched[k].y \div 2)
        /\ data.centers[i][2] = 2 * (data.matched[k].x \div 2)}

\* The value a row holds under "<filters[f]> diff".
DiffOf(row, f) == row[DiffKey(Filters[f])]

\* Row k is the measurement of catalog entry k against source i.
RowMeasures(k, i) ==
    /\ i \in DOMAIN out.sources
    /\ out.sources[i] # NoneSource
    /\ \A f \in DOMAIN Filters :
         DiffOf(out.rows[k], f) =
            data.matched[k].magVar[MagVarColumn(Filters[f])]
                - (270 - 25 * Log10(out.sources[i].flux[f]))

\* C4 as stated: measure_blend measures, for every catalog entry, the source at
\* the index of the one center equal to the entry's truncated position, and
\* fails when an entry has no such center or more than one.
C4_Original ==
    Measured =>
        /\ (\E k \in DOMAIN data.matched : Cardinality(CentersOf(k)) # 1)
                => out.outcome # "ok"
        /\ out.outcome = "ok"
                => \A k \in DOMAIN data.matched : \A i \in CentersOf(k) : RowMeasures(k, i)

\* C5: when measure_blend returns, row k holds under "<filters[f]> diff" the
\* catalog value "<filters[f]>magVar" of entry k minus 27 - 2.5*log10 of band f
\* of the flux of a source whose center matches entry k, for every k and f.
C5_FluxDiff ==
    (Measured /\ out.outcome = "ok")
        => /\ Len(out.rows) = Len(data.matched)
           /\ \A k \in DOMAIN data.matched : \E i \in CentersOf(k) : RowMeasures(k, i)

C5_Witness ==
    /\ out.op = "measure_blend" /\ out.outcome = "ok"
    /\ Len(data.matched) = 2
    /\ data.matched[1].magVar # data.matched[2].magVar
    /\ data.matched[1].y = 1
    /\ CentersOf(1) = {2}
    /\ CentersOf(2) = {1}
    /\ fluxBase = 1

\* C9: the measurements deblend returns hold one row per catalog entry, in
\* catalog order, every row with the keys "<filter> diff" for each filter plus
\* the five scene-level keys, whose values are the same in all rows.
C9_Rows ==
    (out.op = "deblend" /\ out.outcome = "ok")
        => /\ Len(out.rows) = Len(data.matched)
           /\ \A k \in DOMAIN out.rows :
                /\ DOMAIN out.rows[k] =
                      {DiffKey(Filters[f]) : f \in DOMAIN Filters} \cup SceneKeys
                /\ \A key \in SceneKeys : out.rows[k][key] = out.rows[1][key]
                /\ \E i \in CentersOf(k) : RowMeasures(k, i)

C9_Witness ==
    /\ out.op = "deblend" /\ out.outcome = "ok"
    /\ Len(out.rows) = 2
    /\ data.matched[1].magVar # data.matched[2].magVar
    /\ CentersOf(1) # CentersOf(2)
    /\ out.skipped # <<>>
    /\ out.rows[2][SceneKey("runtime")] = <<30000, 2>>

\* C10: once deblend has re-inserted the skipped indices, sources has one entry
\* per center: None at every skipped index and the model initialised from
\* centers[i] at every other index i; so the index a catalog entry is matched to
\* addresses the source built from the center at that index.
C10_SourcesAligned ==
    (out.op = "deblend" /\ out.outcome # "ZeroDivisionError")
        => /\ Len(out.sources) = Len(data.centers)
           /\ \A i \in DOMAIN data.centers :
                IF (i - 1) \in Range(out.skipped)
                THEN out.sources[i] = NoneSource
                ELSE out.sources[i].idx = i
           /\ out.outcome = "ok"
                => \A k \in DOMAIN data.matched :
                     \E i \in CentersOf(k) : out.sources[i].idx = i /\ RowMeasures(k, i)

C10_Witness ==
    /\ out.op = "deblend" /\ out.outcome = "ok"
    /\ Len(data.centers) = 3
    /\ out.skipped = <<0, 1>>
    /\ out.sources[3].idx = 3

(***************************************************************************)
(* Properties of create_path, checked under SpecPath.                      *)
(***************************************************************************)
\* C8: create_path returns normally exactly when it made the directory or the
\* path existed already, and in the latter case changes nothing; in every other
\* case it raises the OSError of the failure, whose errno is not EEXIST.
C8_CreatePath ==
    [][ pathCall'.op = "create_path" =>
          LET p == pathCall'.path
          IN  /\ fs[p] # "none"
                    => /\ pathCall'.outcome = "ok"
                       /\ pathCall'.errno = "EEXIST"
                       /\ fs' = fs
              /\ (fs[p] = "none" /\ fs'[p] = "dir")
                    => /\ pathCall'.outcome = "ok"
                       /\ pathCall'.errno = ""
              /\ (fs[p] = "none" /\ fs'[p] = "none")
                    => /\ pathCall'.outcome = "OSError"
                       /\ pathCall'.errno \in {"ENOTDIR", "EACCES", "ENOENT"}
              /\ fs'[p] \in {fs[p], "dir"}
      ]_vars

C8_Witness ==
    /\ pathCall.op = "create_path"
    /\ pathCall.outcome = "ok"
    /\ pathCall.errno = "EEXIST"
    /\ fs[pathCall.path] = "file"
    /\ pathCall.path = MaxDepth

====
